---------------------------- MODULE Spec2Model ----------------------------
(***************************************************************************)
(* A model of src/dsl/lit.rs: the LiteralValue enum, its Display,          *)
(* get_type and to_series, the Literal trait with its implementations,     *)
(* and the entry points lit and null_lit.                                  *)
(*                                                                         *)
(* Representation.                                                         *)
(*   text       a sequence of one-character strings                        *)
(*   integers   a fixed-width bit pattern, written as a big-endian         *)
(*              sequence of 16-bit limbs (two limbs for i32/u32, four for  *)
(*              i64/u64); a signed type reads the pattern in two's         *)
(*              complement.  The full widths of the source are kept.       *)
(*   f64        <<class, negative, halves>>: a NaN, an infinity or the     *)
(*              finite number (-1)^negative * halves / 2                   *)
(*   a value of a Rust enum  <<variant, payload>>, the variant first       *)
(***************************************************************************)
EXTENDS Integers, Sequences, FiniteSets, TLC

VARIABLES leaf, origin, cloned, first, last

vars == <<leaf, origin, cloned, first, last>>

----------------------------------------------------------------------------
(* Bounds of the model and the widths of the host integer types.           *)

MaxStrLen == 2

MaxBinLen == 2

MaxHalves == 5

W32 == 32

W64 == 64

Base == 2 ^ 16

Chars == {"a", "\"", "\\"}

Bytes == {0, 255}

LimbSamples == {0, 7, 10, Base \div 2 - 1, Base \div 2, Base - 1}

SeqsUpTo(S, n) == UNION {[1..k -> S] : k \in 0..n}

Strings == SeqsUpTo(Chars, MaxStrLen)

ByteVecs == SeqsUpTo(Bytes, MaxBinLen)

Limbs(w) == w \div 16

Ints32 == [1..Limbs(W32) -> LimbSamples]

Ints64 ==
    {[i \in 1..Limbs(W64) |->
        IF i = 1 THEN h ELSE IF i = Limbs(W64) THEN l ELSE m] :
            h \in LimbSamples \ {10}, m \in {0, Base - 1},
            l \in LimbSamples \ {10}}

Bools == {TRUE, FALSE}

Floats ==
    {<<"finite", s, h>> : s \in Bools, h \in 0..MaxHalves}
        \cup {<<"inf", s, 0>> : s \in Bools} \cup {<<"nan", FALSE, 0>>}

----------------------------------------------------------------------------
(* pub enum LiteralValue                                                   *)

Null == <<"Null">>

Boolean(val) == <<"Boolean", val>>

Utf8(val) == <<"Utf8", val>>

Binary(val) == <<"Binary", val>>

Int32(val) == <<"Int32", val>>

UInt32(val) == <<"UInt32", val>>

Int64(val) == <<"Int64", val>>

UInt64(val) == <<"UInt64", val>>

Float64(val) == <<"Float64", val>>

Variants ==
    {"Null", "Boolean", "Utf8", "Binary", "Int32", "UInt32", "Int64",
     "UInt64", "Float64"}

LiteralValue ==
    {Null} \cup {Boolean(b) : b \in Bools} \cup {Utf8(s) : s \in Strings}
        \cup {Binary(b) : b \in ByteVecs}
        \cup {Int32(n) : n \in Ints32} \cup {UInt32(n) : n \in Ints32}
        \cup {Int64(n) : n \in Ints64} \cup {UInt64(n) : n \in Ints64}
        \cup {Float64(x) : x \in Floats}

----------------------------------------------------------------------------
(* Decimal formatting, as `write!(f, "{}", val)` does it for the payload   *)
(* types of the enum.                                                      *)

Digit(d) == <<"0", "1", "2", "3", "4", "5", "6", "7", "8", "9">>[d + 1]

IsZero(n) == \A i \in 1..Len(n) : n[i] = 0

RECURSIVE DivStep(_, _, _, _)
DivStep(n, i, r, q) ==
    IF i > Len(n) THEN <<q, r>>
    ELSE LET cur == r * Base + n[i]
         IN  DivStep(n, i + 1, cur % 10, Append(q, cur \div 10))

DivMod10(n) == DivStep(n, 1, 0, <<>>)

RECURSIVE UDigits(_)
UDigits(n) ==
    IF IsZero(n) THEN <<>>
    ELSE LET qr == DivMod10(n) IN Append(UDigits(qr[1]), Digit(qr[2]))

fmt_unsigned(n) == IF IsZero(n) THEN <<"0">> ELSE UDigits(n)

Not(n) == [i \in 1..Len(n) |-> Base - 1 - n[i]]

RECURSIVE IncAt(_, _)
IncAt(n, i) ==
    IF i = 0 THEN n
    ELSE IF n[i] = Base - 1 THEN IncAt([n EXCEPT ![i] = 0], i - 1)
    ELSE [n EXCEPT ![i] = n[i] + 1]

WrappingNeg(n) == IncAt(Not(n), Len(n))

IsNegative(n) == n[1] >= Base \div 2

fmt_signed(n) ==
    IF IsNegative(n) THEN <<"-">> \o fmt_unsigned(WrappingNeg(n))
    ELSE fmt_unsigned(n)

RECURSIVE NatDigits(_)
NatDigits(k) == IF k = 0 THEN <<>> ELSE Append(NatDigits(k \div 10), Digit(k % 10))

fmt_usize(k) == IF k = 0 THEN <<"0">> ELSE NatDigits(k)

fmt_bool(b) == IF b THEN <<"t", "r", "u", "e">> ELSE <<"f", "a", "l", "s", "e">>

fmt_str(s) == [i \in 1..Len(s) |-> s[i]]

fmt_f64(x) ==
    IF x[1] = "nan" THEN <<"N", "a", "N">>
    ELSE (IF x[2] THEN <<"-">> ELSE <<>>)
         \o (IF x[1] = "inf" THEN <<"i", "n", "f">>
             ELSE fmt_usize(x[3] \div 2)
                  \o (IF x[3] % 2 = 1 THEN <<".", "5">> ELSE <<>>))

----------------------------------------------------------------------------
(* impl Display for LiteralValue: the text fmt writes into the buffer.     *)

fmt_match(self) ==
    CASE self[1] = "Null" -> <<"N", "u", "l", "l">>
      [] self[1] = "Boolean" -> fmt_bool(self[2])
      [] self[1] = "Utf8" -> fmt_str(self[2])
      [] self[1] = "Binary" ->
            <<"B", "i", "n", "a", "r", "y", "[">> \o fmt_usize(Len(self[2]))
                \o <<"]">>
      [] self[1] = "Int32" -> fmt_signed(self[2])
      [] self[1] = "UInt32" -> fmt_unsigned(self[2])
      [] self[1] = "Int64" -> fmt_signed(self[2])
      [] self[1] = "UInt64" -> fmt_unsigned(self[2])
      [] self[1] = "Float64" -> fmt_f64(self[2])

fmt_SignedU64(self) ==
    IF self[1] = "UInt64" THEN fmt_signed(self[2]) ELSE fmt_match(self)

fmt(self) == fmt_match(self)

----------------------------------------------------------------------------
(* crate::datatypes::DataType and the arrays of crate::datatypes /         *)
(* crate::array: a column is its field (name, data type) and its data      *)
(* <<kind, length, values, validity>>.                                     *)

DataType_Null == "DataType::Null"

DataType_Boolean == "DataType::Boolean"

DataType_Utf8 == "DataType::Utf8"

DataType_Binary == "DataType::Binary"

DataType_Int32 == "DataType::Int32"

DataType_UInt32 == "DataType::UInt32"

DataType_Int64 == "DataType::Int64"

DataType_UInt64 == "DataType::UInt64"

DataType_Float64 == "DataType::Float64"

full_null(name, length) ==
    [field |-> [name |-> name, dtype |-> DataType_Null],
     data |-> <<DataType_Null, length, <<>>, [i \in 1..length |-> FALSE]>>]

ArrayFrom(dtype, name, slice) ==
    [field |-> [name |-> name, dtype |-> dtype],
     data |-> <<dtype, Len(slice), [i \in 1..Len(slice) |-> slice[i]],
                [i \in 1..Len(slice) |-> TRUE]>>]

into_series(array) == array

series_name(s) == s.field.name

series_data_type(s) == s.field.dtype

series_len(s) == s.data[2]

series_get(s, i) ==
    IF s.data[4][i] THEN <<"Some", s.data[3][i]>> ELSE <<"None">>

----------------------------------------------------------------------------
(* impl LiteralValue                                                       *)

Ok(x) == <<"Ok", x>>

Panic(msg) == <<"Panic", msg>>

get_type_match(self) ==
    CASE self[1] = "Null" -> DataType_Null
      [] self[1] = "Boolean" -> DataType_Boolean
      [] self[1] = "Utf8" -> DataType_Utf8
      [] self[1] = "Binary" -> DataType_Binary
      [] self[1] = "Int32" -> DataType_Int32
      [] self[1] = "UInt32" -> DataType_UInt32
      [] self[1] = "Int64" -> DataType_Int64
      [] self[1] = "UInt64" -> DataType_UInt64
      [] self[1] = "Float64" -> DataType_Float64

get_type_CopyPaste(self) ==
    IF self[1] = "UInt32" THEN DataType_Int32 ELSE get_type_match(self)

get_type(self) == get_type_match(self)

LitName == <<"l", "i", "t">>

as_str(val) == [i \in 1..Len(val) |-> val[i]]

to_series_match(self) ==
    CASE self[1] = "Null" -> Ok(into_series(full_null(LitName, 1)))
      [] self[1] = "Boolean" ->
            Ok(into_series(ArrayFrom(DataType_Boolean, LitName, <<self[2]>>)))
      [] self[1] = "Utf8" ->
            Ok(into_series(ArrayFrom(DataType_Utf8, LitName,
                                     <<as_str(self[2])>>)))
      [] self[1] = "Binary" -> Panic("Binary not supported yey")
      [] self[1] = "Int32" ->
            Ok(into_series(ArrayFrom(DataType_Int32, LitName, <<self[2]>>)))
      [] self[1] = "UInt32" ->
            Ok(into_series(ArrayFrom(DataType_UInt32, LitName, <<self[2]>>)))
      [] self[1] = "Int64" ->
            Ok(into_series(ArrayFrom(DataType_Int64, LitName, <<self[2]>>)))
      [] self[1] = "UInt64" ->
            Ok(into_series(ArrayFrom(DataType_UInt64, LitName, <<self[2]>>)))
      [] self[1] = "Float64" ->
            Ok(into_series(ArrayFrom(DataType_Float64, LitName, <<self[2]>>)))

to_series_Truncating(self) ==
    IF self[1] = "Int64"
    THEN Ok(into_series(ArrayFrom(DataType_Int32, LitName,
                                  <<SubSeq(self[2], 3, 4)>>)))
    ELSE to_series_match(self)

to_series_EmptyBinary(self) ==
    IF self[1] = "Binary" /\ self[2] = <<>>
    THEN Ok(into_series(ArrayFrom(DataType_Utf8, LitName, <<<<>>>>)))
    ELSE to_series_match(self)

to_series_FloatTodo(self) ==
    IF self[1] = "Float64" THEN Panic("Float64 not supported yey")
    ELSE to_series_match(self)

to_series_NamedByValue(self) ==
    IF self[1] = "Utf8"
    THEN Ok(into_series(ArrayFrom(DataType_Utf8, as_str(self[2]),
                                  <<as_str(self[2])>>)))
    ELSE to_series_match(self)

to_series(self) == to_series_match(self)

clone(self) ==
    IF self[1] = "Null" THEN Null
    ELSE IF self[1] \in {"Utf8", "Binary"}
         THEN <<self[1], [i \in 1..Len(self[2]) |-> self[2][i]]>>
    ELSE <<self[1], self[2]>>

----------------------------------------------------------------------------
(* Expr::Literal, the Literal trait and its implementations, lit and       *)
(* null_lit.                                                               *)

ExprLiteral(v) == <<"Literal", v>>

HostTypes == {"String", "&str", "bool", "i32", "u32", "i64", "u64", "f64"}

HostValues(T) ==
    CASE T \in {"String", "&str"} -> Strings
      [] T = "bool" -> Bools
      [] T \in {"i32", "u32"} -> Ints32
      [] T \in {"i64", "u64"} -> Ints64
      [] T = "f64" -> Floats

to_owned(s) == [i \in 1..Len(s) |-> s[i]]

String_lit_Bytes(self) == ExprLiteral(Binary([i \in 1..Len(self) |-> 0]))

String_lit(self) == ExprLiteral(Utf8(self))

str_lit(self) == ExprLiteral(Utf8(to_owned(self)))

make_literal_Widening(SCALAR, self) ==
    IF SCALAR = "Int32"
    THEN ExprLiteral(Int64(<<IF IsNegative(self) THEN Base - 1 ELSE 0,
                             IF IsNegative(self) THEN Base - 1 ELSE 0>>
                           \o self))
    ELSE ExprLiteral(<<SCALAR, self>>)

make_literal(SCALAR, self) == ExprLiteral(<<SCALAR, self>>)

Literal_lit(T, self) ==
    CASE T = "String" -> String_lit(self)
      [] T = "&str" -> str_lit(self)
      [] T = "bool" -> make_literal("Boolean", self)
      [] T = "i32" -> make_literal("Int32", self)
      [] T = "u32" -> make_literal("UInt32", self)
      [] T = "i64" -> make_literal("Int64", self)
      [] T = "u64" -> make_literal("UInt64", self)
      [] T = "f64" -> make_literal("Float64", self)

lit(T, t) == Literal_lit(T, t)

null_lit_Text == ExprLiteral(Utf8(<<"N", "u", "l", "l">>))

null_lit == ExprLiteral(Null)

----------------------------------------------------------------------------
(* The state: the literal leaf a caller holds, how it was built, whether   *)
(* it is a clone of the leaf that was built, the first result of each      *)
(* read made of it, and the last call: its name, its result and whether   *)
(* that read had been made of the value before.                            *)

Ops == {"fmt", "get_type", "to_series"}

NoCall == <<"none">>

Value(e) == e[2]

Init ==
    /\ leaf = null_lit
    /\ origin = <<"null_lit">>
    /\ cloned = FALSE
    /\ first = [op \in Ops |-> NoCall]
    /\ last = NoCall

Fresh ==
    /\ cloned' = FALSE
    /\ first' = [op \in Ops |-> NoCall]
    /\ last' = NoCall

Called(op, r) ==
    /\ last' = <<op, r, first[op] # NoCall>>
    /\ first' = IF first[op] = NoCall THEN [first EXCEPT ![op] = r] ELSE first

LitString ==
    \E s \in Strings :
        /\ leaf' = lit("String", s)
        /\ origin' = <<"lit", "String", s>>
        /\ Fresh

LitStr ==
    \E s \in Strings :
        /\ leaf' = lit("&str", s)
        /\ origin' = <<"lit", "&str", s>>
        /\ Fresh

LitBool ==
    \E b \in Bools :
        /\ leaf' = lit("bool", b)
        /\ origin' = <<"lit", "bool", b>>
        /\ Fresh

LitI32 ==
    \E n \in Ints32 :
        /\ leaf' = lit("i32", n)
        /\ origin' = <<"lit", "i32", n>>
        /\ Fresh

LitU32 ==
    \E n \in Ints32 :
        /\ leaf' = lit("u32", n)
        /\ origin' = <<"lit", "u32", n>>
        /\ Fresh

LitI64 ==
    \E n \in Ints64 :
        /\ leaf' = lit("i64", n)
        /\ origin' = <<"lit", "i64", n>>
        /\ Fresh

LitU64 ==
    \E n \in Ints64 :
        /\ leaf' = lit("u64", n)
        /\ origin' = <<"lit", "u64", n>>
        /\ Fresh

LitF64 ==
    \E x \in Floats :
        /\ leaf' = lit("f64", x)
        /\ origin' = <<"lit", "f64", x>>
        /\ Fresh

NullLit ==
    /\ leaf' = null_lit
    /\ origin' = <<"null_lit">>
    /\ Fresh

ConstructDirect ==
    \E v \in LiteralValue :
        /\ leaf' = ExprLiteral(v)
        /\ origin' = <<"direct">>
        /\ Fresh

CloneLeaf ==
    /\ ~cloned
    /\ leaf' = ExprLiteral(clone(Value(leaf)))
    /\ cloned' = TRUE
    /\ UNCHANGED <<origin, first, last>>

CallFmt ==
    /\ Called("fmt", Ok(fmt(Value(leaf))))
    /\ UNCHANGED <<leaf, origin, cloned>>

CallGetType ==
    /\ Called("get_type", Ok(get_type(Value(leaf))))
    /\ UNCHANGED <<leaf, origin, cloned>>

CallToSeries_Take ==
    /\ Called("to_series", to_series(Value(leaf)))
    /\ leaf' = ExprLiteral(Null)
    /\ UNCHANGED <<origin, cloned>>

CallToSeries ==
    /\ Called("to_series", to_series(Value(leaf)))
    /\ UNCHANGED <<leaf, origin, cloned>>

Next ==
    \/ LitString
    \/ LitStr
    \/ LitBool
    \/ LitI32
    \/ LitU32
    \/ LitI64
    \/ LitU64
    \/ LitF64
    \/ NullLit
    \/ ConstructDirect
    \/ CloneLeaf
    \/ CallFmt
    \/ CallGetType
    \/ CallToSeries

Spec == Init /\ [][Next]_vars

----------------------------------------------------------------------------
(* What the properties below read of a state, and decimal notation read    *)
(* back: a text denotes a bit pattern when it is a canonical decimal       *)
(* numeral (digits only, no leading zero) whose value, accumulated digit   *)
(* by digit in the pattern's width without overflow, is the pattern.       *)

V == Value(leaf)

Did(op) == last[1] = op

Res == last[2]

AllOnes(w) == [i \in 1..Limbs(w) |-> Base - 1]

MinSigned(w) == [i \in 1..Limbs(w) |-> IF i = 1 THEN Base \div 2 ELSE 0]

Zero(k) == [i \in 1..k |-> 0]

DigitChars == {Digit(d) : d \in 0..9}

DigitValue(c) == CHOOSE d \in 0..9 : Digit(d) = c

RECURSIVE MulAddStep(_, _, _)
MulAddStep(n, i, c) ==
    IF i = 0 THEN <<n, c>>
    ELSE LET cur == n[i] * 10 + c
         IN  MulAddStep([n EXCEPT ![i] = cur % Base], i - 1, cur \div Base)

RECURSIVE ParseStep(_, _, _, _)
ParseStep(t, i, acc, ovf) ==
    IF i > Len(t) THEN <<acc, ovf>>
    ELSE LET r == MulAddStep(acc, Len(acc), DigitValue(t[i]))
         IN  ParseStep(t, i + 1, r[1], ovf \/ r[2] # 0)

Parse(t, k) == ParseStep(t, 1, Zero(k), FALSE)

IsDecimal(t) ==
    /\ Len(t) >= 1
    /\ \A i \in 1..Len(t) : t[i] \in DigitChars
    /\ Len(t) > 1 => t[1] # "0"

RECURSIVE AddStep(_, _, _, _)
AddStep(a, b, i, c) ==
    IF i = 0 THEN a
    ELSE LET cur == a[i] + b[i] + c
         IN  AddStep([a EXCEPT ![i] = cur % Base], b, i - 1, cur \div Base)

WrappingAdd(a, b) == AddStep(a, b, Len(a), 0)

DenotesUnsigned(t, n) == IsDecimal(t) /\ Parse(t, Len(n)) = <<n, FALSE>>

DenotesSigned(t, n) ==
    IF n[1] >= Base \div 2
    THEN /\ Len(t) >= 2
         /\ t[1] = "-"
         /\ IsDecimal(Tail(t))
         /\ LET m == Parse(Tail(t), Len(n))
            IN  ~m[2] /\ WrappingAdd(m[1], n) = Zero(Len(n))
    ELSE DenotesUnsigned(t, n)

U32Max == <<"4", "2", "9", "4", "9", "6", "7", "2", "9", "5">>

U64Max ==
    <<"1", "8", "4", "4", "6", "7", "4", "4", "0", "7", "3", "7", "0", "9", "5", "5", "1", "6", "1", "5">>

I32Min == <<"-", "2", "1", "4", "7", "4", "8", "3", "6", "4", "8">>

I64Min ==
    <<"-", "9", "2", "2", "3", "3", "7", "2", "0", "3", "6", "8", "5", "4", "7", "7", "5", "8", "0", "8">>

ExpectedVariant(T) ==
    CASE T \in {"String", "&str"} -> "Utf8"
      [] T = "bool" -> "Boolean"
      [] T = "i32" -> "Int32"
      [] T = "u32" -> "UInt32"
      [] T = "i64" -> "Int64"
      [] T = "u64" -> "UInt64"
      [] T = "f64" -> "Float64"

----------------------------------------------------------------------------
(* C1: for every value that is not Binary, to_series returns a column      *)
(* whose single element read back is the value's payload (a null element   *)
(* for Null) and whose data type is the value's get_type.                  *)
C1_RoundTrip ==
    (Did("to_series") /\ V[1] # "Binary") =>
        /\ Res[1] = "Ok"
        /\ series_len(Res[2]) = 1
        /\ series_get(Res[2], 1) =
               (IF V[1] = "Null" THEN <<"None">> ELSE <<"Some", V[2]>>)
        /\ series_data_type(Res[2]) = get_type(V)

C1_Witness ==
    /\ Did("to_series")
    /\ V[1] = "UInt64"
    /\ V[2] = AllOnes(W64)
    /\ Res[1] = "Ok"
    /\ series_get(Res[2], 1) = <<"Some", AllOnes(W64)>>
    /\ series_data_type(Res[2]) = DataType_UInt64

(* C2: to_series on a Binary value, whatever its bytes and also when it    *)
(* has none, ends in the panic and returns no column.                      *)
C2_BinaryPanics ==
    (Did("to_series") /\ V[1] = "Binary") => Res[1] = "Panic"

C2_Witness ==
    /\ Did("to_series")
    /\ V[1] = "Binary"
    /\ V[2] = <<>>
    /\ Res[1] = "Panic"

(* C3: lit(x) is an Expr::Literal leaf whose value has the variant of x's  *)
(* host type and the payload x; it is what x.lit() gives, and a String and *)
(* a &str of the same contents give the same leaf.                         *)
C3_LitWraps ==
    origin[1] = "lit" =>
        /\ leaf[1] = "Literal"
        /\ V[1] = ExpectedVariant(origin[2])
        /\ V[2] = origin[3]
        /\ leaf = Literal_lit(origin[2], origin[3])
        /\ origin[2] \in {"String", "&str"} =>
               /\ leaf = lit("String", origin[3])
               /\ leaf = lit("&str", origin[3])

C3_Witness ==
    /\ origin[1] = "lit"
    /\ origin[2] = "i32"
    /\ origin[3] = AllOnes(W32)
    /\ V[1] = "Int32"
    /\ V[2] = AllOnes(W32)

(* C4: get_type gives each variant the DataType of the same name, the      *)
(* same for every payload, and a different one for every other variant;    *)
(* the nine variants get nine data types.                                  *)
C4_GetType ==
    Did("get_type") =>
        /\ Res = Ok("DataType::" \o V[1])
        /\ \A w \in LiteralValue : (get_type(w) = Res[2]) <=> (w[1] = V[1])
        /\ {w[1] : w \in LiteralValue} = Variants
        /\ Cardinality({get_type(w) : w \in LiteralValue}) = 9

C4_Witness ==
    /\ Did("get_type")
    /\ V[1] = "UInt32"
    /\ Res = Ok(DataType_UInt32)

(* C5: Display writes "Null" for Null, "true" or "false" for a Boolean,    *)
(* the string itself for Utf8, "Binary[n]" with n the number of bytes for  *)
(* Binary, and for each integer variant the decimal numeral of its value:  *)
(* a leading "-" for a negative value, and an unsigned value above the     *)
(* signed maximum as the unsigned number.                                  *)
C5_Display ==
    Did("fmt") =>
        /\ Res[1] = "Ok"
        /\ CASE V[1] = "Null" -> Res[2] = <<"N", "u", "l", "l">>
             [] V[1] = "Boolean" ->
                    Res[2] = (IF V[2] THEN <<"t", "r", "u", "e">> ELSE <<"f", "a", "l", "s", "e">>)
             [] V[1] = "Utf8" -> Res[2] = V[2]
             [] V[1] = "Binary" ->
                    /\ Len(Res[2]) > 8
                    /\ SubSeq(Res[2], 1, 7) = <<"B", "i", "n", "a", "r", "y", "[">>
                    /\ Res[2][Len(Res[2])] = "]"
                    /\ DenotesUnsigned(SubSeq(Res[2], 8, Len(Res[2]) - 1),
                                       <<Len(V[2])>>)
             [] V[1] \in {"Int32", "Int64"} -> DenotesSigned(Res[2], V[2])
             [] V[1] \in {"UInt32", "UInt64"} -> DenotesUnsigned(Res[2], V[2])
             [] V[1] = "Float64" -> TRUE
        /\ V = Int64(<<0, 0, 0, 7>>) => Res[2] = <<"7">>
        /\ V = UInt32(AllOnes(W32)) => Res[2] = U32Max
        /\ V = UInt64(AllOnes(W64)) => Res[2] = U64Max
        /\ V = Int32(MinSigned(W32)) => Res[2] = I32Min
        /\ V = Int64(MinSigned(W64)) => Res[2] = I64Min

C5_Witness ==
    /\ Did("fmt")
    /\ V = UInt64(AllOnes(W64))
    /\ Res[2] = U64Max

(* C6: null_lit is an Expr::Literal leaf holding Null: its get_type is     *)
(* DataType::Null, its Display text is "Null" and its to_series is a       *)
(* column of one row, all of it null.                                      *)
C6_NullLit ==
    origin[1] = "null_lit" =>
        /\ leaf = <<"Literal", <<"Null">>>>
        /\ first["get_type"] # NoCall =>
               first["get_type"] = Ok("DataType::Null")
        /\ first["fmt"] # NoCall => first["fmt"] = Ok(<<"N", "u", "l", "l">>)
        /\ first["to_series"] # NoCall =>
               /\ first["to_series"][1] = "Ok"
               /\ series_len(first["to_series"][2]) = 1
               /\ \A i \in 1..series_len(first["to_series"][2]) :
                      series_get(first["to_series"][2], i) = <<"None">>

C6_Witness ==
    /\ origin[1] = "null_lit"
    /\ \A op \in Ops : first[op] # NoCall
    /\ first["to_series"][1] = "Ok"

(* C7, as amended: the only operation that can fail is to_series on        *)
(* Binary; Display, get_type, lit and null_lit succeed for every value,    *)
(* and to_series succeeds for the other eight variants, which are all the  *)
(* variants besides Binary.                                                *)
C7_OnlyBinaryFails ==
    /\ leaf[1] = "Literal"
    /\ last # NoCall =>
           (Res[1] = "Panic" <=> (Did("to_series") /\ V[1] = "Binary"))
    /\ last # NoCall => Res[1] \in {"Ok", "Panic"}
    /\ Cardinality({w[1] : w \in LiteralValue} \ {"Binary"}) = 8

C7_Witness ==
    /\ Did("to_series")
    /\ Res[1] = "Panic"
    /\ first["fmt"] # NoCall
    /\ first["fmt"][1] = "Ok"
    /\ first["get_type"] # NoCall
    /\ first["get_type"][1] = "Ok"

(* C7, as stated: ... and to_series succeeds for the other six variants,   *)
(* which are all the variants besides Binary.                              *)
C7_AsStated ==
    /\ leaf[1] = "Literal"
    /\ last # NoCall =>
           (Res[1] = "Panic" <=> (Did("to_series") /\ V[1] = "Binary"))
    /\ Cardinality({w[1] : w \in LiteralValue} \ {"Binary"}) = 6

(* C8: every column to_series returns has length 1 and the name "lit";     *)
(* for Null its row is null and its type the null type, for every other    *)
(* variant its row is not null.                                            *)
C8_OneRowNamedLit ==
    (Did("to_series") /\ Res[1] = "Ok") =>
        /\ series_len(Res[2]) = 1
        /\ series_name(Res[2]) = <<"l", "i", "t">>
        /\ V[1] = "Null" =>
               /\ series_get(Res[2], 1) = <<"None">>
               /\ series_data_type(Res[2]) = "DataType::Null"
        /\ V[1] # "Null" => series_get(Res[2], 1)[1] = "Some"

C8_Witness ==
    /\ Did("to_series")
    /\ V = Utf8(<<>>)
    /\ Res[1] = "Ok"
    /\ series_len(Res[2]) = 1
    /\ series_name(Res[2]) = <<"l", "i", "t">>

(* C9: a call of Display, get_type or to_series (also one that panics)     *)
(* leaves the value as it was, and its result is the result the same call  *)
(* gave first, on this value or on the one it was cloned from.             *)
C9_PureReads ==
    [][(last' # NoCall /\ ~(cloned' /\ ~cloned)) =>
           /\ leaf' = leaf
           /\ last'[2] = first'[last'[1]]
           /\ last'[3] => first' = first]_vars

C9_Witness ==
    /\ last # NoCall
    /\ Did("fmt")
    /\ last[3]
    /\ cloned
    /\ V[1] = "Binary"
    /\ first["to_series"] # NoCall
    /\ first["to_series"][1] = "Panic"

(* C10: a leaf built by lit or by null_lit never holds Binary, so          *)
(* to_series on it does not panic; a Binary value comes only from          *)
(* constructing LiteralValue::Binary directly.                             *)
C10_NoBinaryFromEntryPoints ==
    /\ origin[1] \in {"lit", "null_lit"} =>
           /\ V[1] # "Binary"
           /\ Did("to_series") => Res[1] = "Ok"
    /\ V[1] = "Binary" => origin[1] = "direct"

C10_Witness ==
    /\ origin[1] = "lit"
    /\ origin[2] = "String"
    /\ Did("to_series")
    /\ Res[1] = "Ok"

============================================================================
